---- MODULE Spec2Model ----
(***************************************************************************)
(* treelog: the incremental tree model (build/incremental.rs), the level   *)
(* path and prefix computation (level.rs, utils.rs, style.rs) and the      *)
(* hierarchical progress-bar manager (indicatif.rs).                       *)
(*                                                                         *)
(* Conventions of the translation:                                         *)
(*   Option<T>      None is <<>>, Some(x) is <<x>>                         *)
(*   HashMap<K, V>  a function whose DOMAIN is the set of keys             *)
(*   Vec<T>         a sequence; push is Append, pop takes the last element *)
(*   String         a sequence of characters (one-character strings; the   *)
(*                  box-drawing characters are written by code point)      *)
(*   a call         [out |-> "return", val |-> v], or out = "panic", or    *)
(*                  out = "loops" when a loop of the call never exits      *)
(***************************************************************************)
EXTENDS Integers, Sequences, FiniteSets, TLC

\* ------------------------------------------------------------------ bounds

\* Add calls made on one IncrementalTree.
MaxItems == 4

\* Dependencies the consumer of examples/indicatif.rs adds.
MaxDeps == 5

\* Progress bars added to one TreeProgressManager.
MaxBars == 3

\* the most bars a TreeProgressManager holds when one thread alone calls it
MaxAlone == 4

\* Add calls made on the IncrementalTree whose queries are called as well.
MaxQueried == 3

\* Elements of a LevelPath handed to compute_prefix.
MaxLen == 4


\* ------------------------------------------------------------------ values

None == <<>>

Some(x) == <<x>>

IsSome(o) == o # <<>>

Unwrap(o) == o[1]

EmptyMap == [k \in {} |-> k]

\* HashMap::insert(k, v)
MapInsert(m, k, v) == [x \in (DOMAIN m) \cup {k} |-> IF x = k THEN v ELSE m[x]]

\* HashMap::get(k)
MapGet(m, k) == IF k \in DOMAIN m THEN Some(m[k]) ELSE None

Ret(v) == [out |-> "return", val |-> v]

Panic == [out |-> "panic", val |-> 0]

Loops == [out |-> "loops", val |-> 0]

Returns(r) == r.out = "return"

\* iter().rev() of a Vec
Reverse(s) == [i \in 1..Len(s) |-> s[Len(s) + 1 - i]]

\* Vec::last
Last(s) == IF s = <<>> THEN None ELSE Some(s[Len(s)])

\* Vec without its last element (what pop leaves)
Front(s) == SubSeq(s, 1, Len(s) - 1)

\* Vec::insert(index, x)
InsertAt(s, index, x) == SubSeq(s, 1, index) \o <<x>> \o SubSeq(s, index + 1, Len(s))

\* the set of elements of a sequence
Range(s) == {s[i] : i \in 1..Len(s)}

\* ------------------------------------------------------------------ tree.rs

\* Tree::new_node(label) = Tree::Node(label, vec![])
new_node(label) == [kind |-> "Node", label |-> label, lines |-> <<>>, children |-> <<>>]

\* Tree::new_leaf(line) = Tree::Leaf(vec![line])
new_leaf(line) == [kind |-> "Leaf", label |-> "", lines |-> <<line>>, children |-> <<>>]

\* Tree::new_leaf_lines(lines) = Tree::Leaf(lines)
new_leaf_lines(lines) == [kind |-> "Leaf", label |-> "", lines |-> lines, children |-> <<>>]

\* ------------------------------------------------------------------ style.rs

\* TreeStyle::unicode(): U+251C is the tee, U+2514 the corner, U+2502 the bar,
\* U+2500 the dash of the box-drawing block
unicode ==
    [branch   |-> <<" ", "U+251C", "U+2500">>,
     last     |-> <<" ", "U+2514", "U+2500">>,
     vertical |-> <<" ", "U+2502", " ">>,
     empty    |-> <<" ", " ", " ">>]

\* TreeStyle::ascii(): plus, grave accent (U+0060), pipe, minus
ascii ==
    [branch   |-> <<" ", "+", "-">>,
     last     |-> <<" ", "U+0060", "-">>,
     vertical |-> <<" ", "|", " ">>,
     empty    |-> <<" ", " ", " ">>]

\* StyleConfig::get_branch(is_last)
get_branch(st, is_last) == IF is_last THEN st.last ELSE st.branch

\* StyleConfig::get_vertical
get_vertical(st) == st.vertical

\* StyleConfig::get_empty
get_empty(st) == st.empty

Styles == {unicode, ascii}

\* ------------------------------------------------------------------ state

VARIABLES
    trees,              \* IncrementalTree.trees: id -> Tree
    parent_to_children, \* IncrementalTree.parent_to_children: id -> Vec<id>
    child_to_parent,    \* IncrementalTree.child_to_parent: id -> Option<id>
    next_id,            \* IncrementalTree.next_id
    root_ids,           \* IncrementalTree.root_ids
    style,              \* IncrementalTree.style
    returned,           \* history: the ids the add calls returned, in call order
    rows,               \* examples/indicatif.rs: the bars of the MultiProgress, top to bottom
    state,              \* TreeProgressManager.state: the TreeState behind the mutex
    mutex,              \* the holder of the mutex of state, None when it is free
    multi_progress,     \* TreeProgressManager.multi_progress: its bars, top to bottom
    messages,           \* the message each ProgressBar shows, by the id of its item
    pc,                 \* where each thread is in its TreeProgressManager call
    level,              \* the LevelPath argument of the prefix functions of utils.rs
    result,             \* the last query or prefix call since the last add: its
                        \* name, argument and outcome; None when there is none
    tree_lines,         \* iterator.rs: the TreeLines iterator over a built tree and
                        \* the lines it has yielded; None when none was made
    CURRENT_BAR_ID      \* indicatif.rs: the thread-local cell of each thread

it_vars == <<trees, parent_to_children, child_to_parent, next_id, root_ids, style, returned>>

pm_vars == <<state, mutex, multi_progress, messages, pc>>

q_vars == <<level, result>>

draw_vars == <<tree_lines, CURRENT_BAR_ID>>

vars == <<it_vars, rows, pm_vars, q_vars, draw_vars>>

\* ------------------------------------------------------------------ inputs

Labels == {"a", "b"}

LeafLines == {<<"x", "y">>}

\* parent_id arguments: None, ids already assigned, the id about to be
\* assigned and one that is assigned only later
ParentArgs == {None} \cup {Some(p) : p \in 0..MaxItems}

\* examples/indicatif.rs, initialize_progress_display: the main progress bar,
\* added to the MultiProgress before any tree row; it is no tree item
MainBar == -1

\* the threads that share one TreeProgressManager: two, the least number
\* whose calls interleave
Threads == {1, 2}

\* the base messages set_message is called with
BaseMessages == {<<"m">>}

\* LevelPath::from_vec: every path of at most MaxLen elements
LevelPaths == UNION {[1..n -> BOOLEAN] : n \in 0..MaxLen}

\* IncrementalTree::with_style(style), initialize_progress_display, and
\* TreeProgressManager::with_style(style)
with_style ==
    /\ trees = EmptyMap
    /\ parent_to_children = EmptyMap
    /\ child_to_parent = EmptyMap
    /\ next_id = 0
    /\ root_ids = <<>>
    /\ style \in Styles
    /\ returned = <<>>
    /\ rows = <<MainBar>>
    /\ state = [items |-> <<>>,
                index_to_position |-> EmptyMap,
                parent_to_children |-> EmptyMap,
                tree_prefixes |-> EmptyMap,
                base_messages |-> EmptyMap,
                style |-> style]
    /\ mutex = None
    /\ multi_progress = <<>>
    /\ messages = EmptyMap
    /\ pc = [t \in Threads |-> "idle"]
    /\ tree_lines = None
    /\ CURRENT_BAR_ID = [t \in Threads |-> None]

\* the state after construction; no prefix function has been handed a path
Init ==
    /\ with_style
    /\ level = <<>>
    /\ result = None

\* the prefix functions of utils.rs take any LevelPath
InitPrefix ==
    /\ with_style
    /\ level \in LevelPaths
    /\ result = None

\* ------------------------------------------------------------------ build/incremental.rs

\* link_to_parent with the root branch taken for every item: a child is
\* pushed to root_ids as well
link_to_parent_roots_all(id, parent_id, now) ==
    /\ root_ids' = Append(root_ids, id)
    /\ IF /\ IsSome(parent_id)
          /\ Unwrap(parent_id) \in DOMAIN now
          /\ now[Unwrap(parent_id)].kind = "Node"
       THEN /\ parent_to_children' =
                  MapInsert(parent_to_children, Unwrap(parent_id),
                      Append(IF Unwrap(parent_id) \in DOMAIN parent_to_children
                             THEN parent_to_children[Unwrap(parent_id)]
                             ELSE <<>>, id))
            /\ child_to_parent' = MapInsert(child_to_parent, id, Some(Unwrap(parent_id)))
       ELSE /\ child_to_parent' = MapInsert(child_to_parent, id, None)
            /\ UNCHANGED parent_to_children

\* IncrementalTree::link_to_parent, reading the item table now that the
\* caller has already inserted the new item into
link_to_parent(id, parent_id, now) ==
    IF IsSome(parent_id)
    THEN IF /\ Unwrap(parent_id) \in DOMAIN now
            /\ now[Unwrap(parent_id)].kind = "Node"
         THEN /\ parent_to_children' =
                    MapInsert(parent_to_children, Unwrap(parent_id),
                        Append(IF Unwrap(parent_id) \in DOMAIN parent_to_children
                               THEN parent_to_children[Unwrap(parent_id)]
                               ELSE <<>>, id))
              /\ child_to_parent' = MapInsert(child_to_parent, id, Some(Unwrap(parent_id)))
              /\ UNCHANGED root_ids
         ELSE /\ root_ids' = Append(root_ids, id)
              /\ child_to_parent' = MapInsert(child_to_parent, id, None)
              /\ UNCHANGED parent_to_children
    ELSE /\ root_ids' = Append(root_ids, id)
         /\ child_to_parent' = MapInsert(child_to_parent, id, None)
         /\ UNCHANGED parent_to_children

\* IncrementalTree::add_node
add_node(label, parent_id) ==
    /\ next_id' = next_id + 1
    /\ trees' = MapInsert(trees, next_id, new_node(label))
    /\ link_to_parent(next_id, parent_id, trees')
    /\ returned' = Append(returned, next_id)
    /\ UNCHANGED style

\* add_leaf without the increment of next_id
add_leaf_same_id(line, parent_id) ==
    /\ next_id' = next_id
    /\ trees' = MapInsert(trees, next_id, new_leaf(line))
    /\ link_to_parent(next_id, parent_id, trees')
    /\ returned' = Append(returned, next_id)
    /\ UNCHANGED style

\* IncrementalTree::add_leaf
add_leaf(line, parent_id) ==
    /\ next_id' = next_id + 1
    /\ trees' = MapInsert(trees, next_id, new_leaf(line))
    /\ link_to_parent(next_id, parent_id, trees')
    /\ returned' = Append(returned, next_id)
    /\ UNCHANGED style

\* IncrementalTree::add_leaf_lines
add_leaf_lines(lines, parent_id) ==
    /\ next_id' = next_id + 1
    /\ trees' = MapInsert(trees, next_id, new_leaf_lines(lines))
    /\ link_to_parent(next_id, parent_id, trees')
    /\ returned' = Append(returned, next_id)
    /\ UNCHANGED style

\* ------------------------------------------------------------------ level.rs

\* The while loop of LevelPath::from_parent_chain. get_parent and
\* is_last_child are the two closures, as functions of the index. The walk
\* reads a structure that does not change while it runs and its only control
\* state is current, so a walk that has made more than limit steps, limit
\* being the number of items, has been at some index twice and never exits.
RECURSIVE chain_loop(_, _, _, _, _)
chain_loop(current, path, get_parent, is_last_child, limit) ==
    IF Len(path) > limit
    THEN Loops
    ELSE IF IsSome(get_parent[current])
         THEN chain_loop(Unwrap(get_parent[current]),
                         Append(path, is_last_child[current]),
                         get_parent, is_last_child, limit)
         ELSE Ret(path)

\* LevelPath::from_parent_chain
from_parent_chain(item_index, get_parent, is_last_child, limit) ==
    LET walked == chain_loop(item_index, <<>>, get_parent, is_last_child, limit)
    IN  IF Returns(walked) THEN Ret(Reverse(walked.val)) ELSE walked

\* ------------------------------------------------------------------ utils.rs

\* the for loop of compute_prefix, pos counting from 0 as enumerate() does
RECURSIVE prefix_loop(_, _, _, _)
prefix_loop(lv, st, pos, prefix) ==
    IF pos >= Len(lv)
    THEN prefix
    ELSE LET is_last == lv[pos + 1]
             last_row == pos = Len(lv) - 1
         IN  prefix_loop(lv, st, pos + 1,
                 prefix \o (IF is_last
                            THEN IF ~last_row THEN get_empty(st) ELSE get_branch(st, TRUE)
                            ELSE IF ~last_row THEN get_vertical(st) ELSE get_branch(st, FALSE)))

\* the for loop of compute_second_line_prefix over the elements from pos on
RECURSIVE second_line_loop(_, _, _, _)
second_line_loop(lv, st, pos, prefix) ==
    IF pos >= Len(lv)
    THEN prefix
    ELSE second_line_loop(lv, st, pos + 1,
             prefix \o (IF lv[pos + 1] THEN get_empty(st) ELSE get_vertical(st)))

\* compute_prefix with the rule of the ancestor levels at the last position too
compute_prefix_ancestors_only(lv, st) == second_line_loop(lv, st, 0, <<>>)

\* compute_prefix that keeps the branch glyphs for the Unicode style only
compute_prefix_ascii_ancestors_only(lv, st) ==
    IF st.branch[2] = "+" THEN second_line_loop(lv, st, 0, <<>>) ELSE prefix_loop(lv, st, 0, <<>>)

\* compute_prefix(level, style)
compute_prefix(lv, st) == prefix_loop(lv, st, 0, <<>>)

\* compute_second_line_prefix with the branch glyphs of compute_prefix at the
\* last position
compute_second_line_prefix_branching(lv, st) == prefix_loop(lv, st, 0, <<>>)

\* compute_second_line_prefix(level, style)
compute_second_line_prefix(lv, st) == second_line_loop(lv, st, 0, <<>>)

\* ------------------------------------------------------------------ build/incremental.rs, queries

\* the ids assigned so far and the one assigned next: every value an index
\* can take inside a walk
Ids == 0..next_id

\* the get_parent closure of IncrementalTree::get_prefix
it_get_parent ==
    [idx \in Ids |-> IF idx \in DOMAIN child_to_parent THEN child_to_parent[idx] ELSE None]

\* is_last_child that holds of the newest item alone
it_is_last_child_newest ==
    [idx \in Ids |-> idx \in DOMAIN child_to_parent /\ IsSome(child_to_parent[idx]) /\ idx = next_id - 1]

\* the is_last_child closure of IncrementalTree::get_prefix
it_is_last_child ==
    [idx \in Ids |->
        IF /\ idx \in DOMAIN child_to_parent
           /\ IsSome(child_to_parent[idx])
           /\ Unwrap(child_to_parent[idx]) \in DOMAIN parent_to_children
           /\ parent_to_children[Unwrap(child_to_parent[idx])] # <<>>
        THEN Last(parent_to_children[Unwrap(child_to_parent[idx])]) = Some(idx)
        ELSE FALSE]

\* the LevelPath IncrementalTree::get_prefix builds for id
get_prefix_level_path(id) ==
    from_parent_chain(id, it_get_parent, it_is_last_child, Cardinality(DOMAIN trees))

\* IncrementalTree::get_prefix of the instance that has these items and the
\* style st
get_prefix_styled(st, id) ==
    IF MapGet(child_to_parent, id) = Some(None)
    THEN Ret(None)
    ELSE IF id \notin DOMAIN trees
         THEN Ret(None)
         ELSE LET level_path == get_prefix_level_path(id)
              IN  IF Returns(level_path)
                  THEN Ret(Some(compute_prefix(level_path.val, st)))
                  ELSE level_path

\* IncrementalTree::get_prefix
get_prefix(id) == get_prefix_styled(style, id)

\* The while loop of calculate_insert_position_for_existing over the
\* children map p2c; stack has its top at the end. pos counts the pops: every
\* popped id is an item, so more than limit pops have popped one id twice and
\* the loop never exits.
RECURSIVE existing_loop(_, _, _, _, _)
existing_loop(id, pos, stack, p2c, limit) ==
    IF stack = <<>>
    THEN Panic
    ELSE IF pos > limit
         THEN Loops
         ELSE LET current_id == stack[Len(stack)]
                  rest == Front(stack)
              IN  IF current_id = id
                  THEN Ret(pos)
                  ELSE existing_loop(id, pos + 1,
                           IF current_id \in DOMAIN p2c
                           THEN rest \o Reverse(p2c[current_id])
                           ELSE rest,
                           p2c, limit)

\* existing_position without the rev() of the root ids: the stack pops the
\* last root first
existing_position_roots_forward(roots, p2c, items, id) == existing_loop(id, 0, roots, p2c, items)

\* calculate_insert_position_for_existing on a tree with these root_ids,
\* this parent_to_children and so many items
existing_position(roots, p2c, items, id) == existing_loop(id, 0, Reverse(roots), p2c, items)

\* IncrementalTree::calculate_insert_position_for_existing
calculate_insert_position_for_existing(id) ==
    existing_position(root_ids, parent_to_children, Cardinality(DOMAIN trees), id)

\* The while loop of calculate_insert_position(Some(parent_id)). The first
\* pop is the argument, every later one an item: more than limit + 1 pops
\* have popped one id twice and the loop never exits.
RECURSIVE count_loop(_, _, _)
count_loop(count, stack, limit) ==
    IF stack = <<>>
    THEN Ret(count)
    ELSE IF count > limit + 1
         THEN Loops
         ELSE LET id == stack[Len(stack)]
                  rest == Front(stack)
              IN  count_loop(count + 1,
                      IF id \in DOMAIN parent_to_children
                      THEN rest \o Reverse(parent_to_children[id])
                      ELSE rest,
                      limit)

\* IncrementalTree::calculate_insert_position
calculate_insert_position(parent_id) ==
    IF IsSome(parent_id)
    THEN count_loop(0, <<Unwrap(parent_id)>>, Cardinality(DOMAIN trees))
    ELSE Ret(Len(root_ids))

\* parent_to_children.get(&id), unwrap_or_default: the children list of id,
\* empty when id has none
Children(id) == IF id \in DOMAIN parent_to_children THEN parent_to_children[id] ELSE <<>>

\* Tree::Node(label, children)
Node(label, children) == [kind |-> "Node", label |-> label, lines |-> <<>>, children |-> children]

\* the results of the recursive calls of one build_subtree, filter_map'ed:
\* the Vec of the subtrees that are Some, or "loops" when a call does not return
RECURSIVE collect(_)
collect(built) ==
    IF built = <<>>
    THEN Ret(<<>>)
    ELSE LET rest == collect(Tail(built))
         IN  IF ~Returns(built[1])
             THEN built[1]
             ELSE IF ~Returns(rest)
                  THEN rest
                  ELSE IF IsSome(built[1].val)
                       THEN Ret(<<Unwrap(built[1].val)>> \o rest.val)
                       ELSE rest

\* IncrementalTree::build_subtree. The recursion follows parent_to_children,
\* which the call does not change: nested deeper than the number of items it
\* is inside a call for the same id and never returns; depth counts down
\* from that number.
RECURSIVE build_subtree(_, _)
build_subtree(id, depth) ==
    IF id \notin DOMAIN trees
    THEN Ret(None)
    ELSE IF trees[id].kind = "Node"
         THEN IF depth = 0 /\ Children(id) # <<>>
              THEN Loops
              ELSE LET children ==
                           collect([i \in 1..Len(Children(id)) |->
                                       build_subtree(Children(id)[i], depth - 1)])
                   IN  IF Returns(children)
                       THEN Ret(Some(Node(trees[id].label, children.val)))
                       ELSE children
         ELSE Ret(Some(trees[id]))

\* build_tree that wraps a single root in the synthetic node as well
build_tree_always_wraps ==
    IF DOMAIN trees = {} \/ root_ids = <<>>
    THEN Ret(None)
    ELSE LET children ==
                 collect([i \in 1..Len(root_ids) |->
                             build_subtree(root_ids[i], Cardinality(DOMAIN trees))])
         IN  IF Returns(children) THEN Ret(Some(Node("", children.val))) ELSE children

\* IncrementalTree::build_tree
build_tree ==
    IF DOMAIN trees = {}
    THEN Ret(None)
    ELSE IF root_ids = <<>>
         THEN Ret(None)
         ELSE IF Len(root_ids) = 1
              THEN build_subtree(root_ids[1], Cardinality(DOMAIN trees))
              ELSE LET children ==
                           collect([i \in 1..Len(root_ids) |->
                                       build_subtree(root_ids[i], Cardinality(DOMAIN trees))])
                   IN  IF Returns(children) THEN Ret(Some(Node("", children.val))) ELSE children

\* IncrementalTree::get_tree
get_tree(id) == MapGet(trees, id)

\* IncrementalTree::len
len == Cardinality(DOMAIN trees)

\* IncrementalTree::is_empty
is_empty == DOMAIN trees = {}

\* ------------------------------------------------------------------ indicatif.rs, TreeState

\* ProgressBarItem; the progress bar itself is known by the id of its item
ProgressBarItem(id, parent) == [id |-> id, parent |-> parent]

\* self.items[pos], pos counting from 0
ItemAt(ts, pos) == ts.items[pos + 1]

\* every value an index can take inside a walk over a TreeState: the ids of
\* the items, and the parent_id arguments
BarIds == 0..(IF MaxBars > MaxAlone THEN MaxBars ELSE MaxAlone)

\* the get_parent closure of TreeState::compute_prefix
ts_get_parent(ts) ==
    [idx \in BarIds |->
        IF idx \in DOMAIN ts.index_to_position
        THEN ItemAt(ts, ts.index_to_position[idx]).parent
        ELSE None]

\* sort_by_key(|(_, pos)| *pos) of a Vec of (child_idx, pos) pairs: a stable
\* sort, here by insertion
RECURSIVE sort_by_pos(_)
sort_by_pos(pairs) ==
    IF pairs = <<>>
    THEN <<>>
    ELSE LET sorted == sort_by_pos(Front(pairs))
             x == pairs[Len(pairs)]
             before == {i \in 1..Len(sorted) : sorted[i][2] <= x[2]}
             k == IF before = {} THEN 0 ELSE CHOOSE i \in before : \A j \in before : j <= i
         IN  InsertAt(sorted, k, x)

\* filter_map of the children that have a position, as (child_idx, pos) pairs
RECURSIVE existing_children(_, _)
existing_children(ts, children) ==
    IF children = <<>>
    THEN <<>>
    ELSE LET rest == existing_children(ts, Tail(children))
         IN  IF children[1] \in DOMAIN ts.index_to_position
             THEN <<<<children[1], ts.index_to_position[children[1]]>>>> \o rest
             ELSE rest

\* the is_last_child closure of TreeState::compute_prefix
ts_is_last_child(ts) ==
    [idx \in BarIds |->
        IF /\ idx \in DOMAIN ts.index_to_position
           /\ IsSome(ItemAt(ts, ts.index_to_position[idx]).parent)
           /\ Unwrap(ItemAt(ts, ts.index_to_position[idx]).parent) \in DOMAIN ts.parent_to_children
        THEN LET parent_idx == Unwrap(ItemAt(ts, ts.index_to_position[idx]).parent)
                 sorted == sort_by_pos(existing_children(ts, ts.parent_to_children[parent_idx]))
             IN  IF sorted # <<>> THEN sorted[Len(sorted)][1] = idx ELSE FALSE
        ELSE FALSE]

\* TreeState::compute_prefix; indexing items by the position of an id that has
\* none panics
TreeState_compute_prefix(ts, item_idx) ==
    IF item_idx \notin DOMAIN ts.index_to_position
    THEN Panic
    ELSE IF ~IsSome(ItemAt(ts, ts.index_to_position[item_idx]).parent)
         THEN Ret(<<>>)
         ELSE LET level_path ==
                      from_parent_chain(item_idx, ts_get_parent(ts), ts_is_last_child(ts),
                                        Len(ts.items))
              IN  IF Returns(level_path)
                  THEN Ret(compute_prefix(level_path.val, ts.style))
                  ELSE level_path

\* the larger of two positions
max(a, b) == IF a >= b THEN a ELSE b

\* the for loop over the descendants of one popped id in find_insert_position:
\* <<last_descendant_pos, stack>> after it
RECURSIVE descendants_loop(_, _, _, _)
descendants_loop(ts, descendants, last_descendant_pos, stack) ==
    IF descendants = <<>>
    THEN <<last_descendant_pos, stack>>
    ELSE IF descendants[1] \in DOMAIN ts.index_to_position
         THEN descendants_loop(ts, Tail(descendants),
                  max(last_descendant_pos, ts.index_to_position[descendants[1]]),
                  Append(stack, descendants[1]))
         ELSE descendants_loop(ts, Tail(descendants), last_descendant_pos, stack)

\* The while loop of find_insert_position. Every popped id has a position, so
\* more than limit pops have popped one id twice and the loop never exits.
RECURSIVE find_loop(_, _, _, _, _)
find_loop(ts, last_descendant_pos, stack, pops, limit) ==
    IF stack = <<>>
    THEN Ret(last_descendant_pos + 1)
    ELSE IF pops > limit
         THEN Loops
         ELSE LET current_id == stack[Len(stack)]
                  after == IF current_id \in DOMAIN ts.parent_to_children
                           THEN descendants_loop(ts, ts.parent_to_children[current_id],
                                                 last_descendant_pos, Front(stack))
                           ELSE <<last_descendant_pos, Front(stack)>>
              IN  find_loop(ts, after[1], after[2], pops + 1, limit)

\* find_insert_position that puts every bar at the end
find_insert_position_at_end(ts, item) == Ret(Len(ts.items))

\* find_insert_position that puts every child right behind its parent
find_insert_position_behind_parent(ts, item) ==
    IF ~IsSome(item.parent)
    THEN Ret(Len(ts.items))
    ELSE IF Unwrap(item.parent) \notin DOMAIN ts.index_to_position
         THEN Ret(Len(ts.items))
         ELSE Ret(ts.index_to_position[Unwrap(item.parent)] + 1)

\* TreeState::find_insert_position
find_insert_position(ts, item) ==
    IF ~IsSome(item.parent)
    THEN Ret(Len(ts.items))
    ELSE IF Unwrap(item.parent) \notin DOMAIN ts.index_to_position
         THEN Ret(Len(ts.items))
         ELSE IF \/ Unwrap(item.parent) \notin DOMAIN ts.parent_to_children
                 \/ ts.parent_to_children[Unwrap(item.parent)] = <<>>
              THEN Ret(ts.index_to_position[Unwrap(item.parent)] + 1)
              ELSE LET children == ts.parent_to_children[Unwrap(item.parent)]
                       last_child_id == children[Len(children)]
                   IN  IF last_child_id \notin DOMAIN ts.index_to_position
                       THEN Panic
                       ELSE find_loop(ts, ts.index_to_position[last_child_id],
                                      <<last_child_id>>, 0, Len(ts.items))

\* The while loop of update_prefixes_for_subtree; to_update has its top at the
\* end. Every id whose children are pushed has a position, so more than
\* limit + 1 pops have popped one id twice and the loop never exits. The
\* result is the TreeState the loop leaves, or the way it does not return.
RECURSIVE subtree_loop(_, _, _, _)
subtree_loop(ts, to_update, pops, limit) ==
    IF to_update = <<>>
    THEN Ret(ts)
    ELSE IF pops > limit + 1
         THEN Loops
         ELSE LET idx == to_update[Len(to_update)]
                  rest == Front(to_update)
              IN  IF idx \notin DOMAIN ts.index_to_position
                  THEN subtree_loop(ts, rest, pops + 1, limit)
                  ELSE LET prefix == TreeState_compute_prefix(ts, idx)
                           has_parent == IsSome(ItemAt(ts, ts.index_to_position[idx]).parent)
                           more == IF idx \in DOMAIN ts.parent_to_children
                                   THEN rest \o ts.parent_to_children[idx]
                                   ELSE rest
                       IN  IF has_parent /\ ~Returns(prefix)
                           THEN prefix
                           ELSE subtree_loop(
                                    IF has_parent
                                    THEN [ts EXCEPT !.tree_prefixes = MapInsert(@, idx, prefix.val)]
                                    ELSE ts,
                                    more, pops + 1, limit)

\* TreeState::update_prefixes_for_subtree
update_prefixes_for_subtree(ts, root_idx) == subtree_loop(ts, <<root_idx>>, 0, Len(ts.items))

\* ------------------------------------------------------------------ the callers of IncrementalTree

\* at most MaxItems add calls
MoreItems == next_id < MaxItems /\ Len(returned) < MaxItems

AddNode ==
    /\ MoreItems
    /\ \E label \in Labels, parent_id \in ParentArgs : add_node(label, parent_id)
    /\ UNCHANGED <<rows, pm_vars>>

AddLeaf ==
    /\ MoreItems
    /\ \E parent_id \in ParentArgs : add_leaf("x", parent_id)
    /\ UNCHANGED <<rows, pm_vars>>

AddLeafLines ==
    /\ MoreItems
    /\ \E lines \in LeafLines, parent_id \in ParentArgs : add_leaf_lines(lines, parent_id)
    /\ UNCHANGED <<rows, pm_vars>>

Next == (AddNode \/ AddLeaf \/ AddLeafLines) /\ UNCHANGED <<q_vars, draw_vars>>

Spec == Init /\ [][Next]_vars

\* MultiProgress::insert(index, bar) of the indicatif crate: an index past the
\* end appends
mp_insert(bars, index, bar) == IF index >= Len(bars) THEN Append(bars, bar) ELSE InsertAt(bars, index, bar)

\* examples/indicatif.rs, handle_add_dependency: add_node, then
\* calculate_insert_position_for_existing of the new id, then the insert of
\* the bar at that position. A panic of the position query ends the caller
\* before the insert.
handle_add_dependency(parent_manager_id) ==
    \E manager_id \in {next_id} :
        /\ add_node("", parent_manager_id)
        /\ \E roots \in {root_ids'}, p2c \in {parent_to_children'} :
               LET insert_pos == existing_position(roots, p2c, Cardinality(DOMAIN trees'), manager_id)
               IN  rows' = IF Returns(insert_pos)
                           THEN mp_insert(rows, insert_pos.val, manager_id)
                           ELSE rows

\* the parent of a dependency: None, or the manager id an earlier call returned
HandleAddDependency ==
    /\ next_id < MaxDeps
    /\ \E parent_manager_id \in {None} \cup {Some(returned[k]) : k \in 1..Len(returned)} :
        handle_add_dependency(parent_manager_id)

NextConsumer == HandleAddDependency /\ UNCHANGED <<pm_vars, q_vars, draw_vars>>

\* the consumer of examples/indicatif.rs as the only caller of the tree
SpecConsumer == Init /\ [][NextConsumer]_vars

\* ------------------------------------------------------------------ indicatif.rs, TreeProgressManager

\* items.insert(insert_pos, item), then the position of every item behind the
\* insertion point and of the new item written to index_to_position
insert_item(ts, insert_pos, item) ==
    LET items == InsertAt(ts.items, insert_pos, item)
        moved == {items[i].id : i \in (insert_pos + 2)..Len(items)}
    IN  [ts EXCEPT
            !.items = items,
            !.index_to_position =
                [k \in (DOMAIN @) \cup moved \cup {item.id} |->
                    IF k = item.id
                    THEN insert_pos
                    ELSE IF k \in moved
                         THEN (CHOOSE i \in (insert_pos + 2)..Len(items) :
                                   /\ items[i].id = k
                                   /\ \A j \in (i + 1)..Len(items) : items[j].id # k) - 1
                         ELSE @[k]]]

\* parent_to_children.entry(parent_id).or_default().push(id), for Some(parent_id)
push_child(ts, parent_id, id) ==
    IF IsSome(parent_id)
    THEN [ts EXCEPT !.parent_to_children =
             MapInsert(@, Unwrap(parent_id),
                 Append(IF Unwrap(parent_id) \in DOMAIN @ THEN @[Unwrap(parent_id)] ELSE <<>>, id))]
    ELSE ts

\* add_progress_bar without the loop over sibling_indices
siblings_loop_skipped(ts, sibling_indices) == Ret(ts)

\* for sibling_idx in &sibling_indices { update_prefixes_for_subtree }: the
\* TreeState after the loop, or the way a call in it does not return
RECURSIVE siblings_loop(_, _)
siblings_loop(ts, sibling_indices) ==
    IF sibling_indices = <<>>
    THEN Ret(ts)
    ELSE LET after == update_prefixes_for_subtree(ts, sibling_indices[1])
         IN  IF Returns(after) THEN siblings_loop(after.val, Tail(sibling_indices)) ELSE after

\* add_progress_bar from locking state to drop(state): what it leaves in
\* state, the position it inserts the bar at, and whether it gets there
add_progress_bar_locked(ts, parent_id) ==
    LET id == Len(ts.items)
        item == ProgressBarItem(id, parent_id)
        insert_pos == find_insert_position(ts, item)
    IN  IF ~Returns(insert_pos)
        THEN [out |-> insert_pos.out, val |-> ts, insert_pos |-> 0, inserted |-> FALSE]
        ELSE LET linked == push_child(insert_item(ts, insert_pos.val, item), parent_id, id)
                 sibling_indices ==
                     IF IsSome(parent_id)
                     THEN IF Unwrap(parent_id) \in DOMAIN linked.parent_to_children
                          THEN linked.parent_to_children[Unwrap(parent_id)]
                          ELSE <<>>
                     ELSE <<id>>
                 updated == siblings_loop(linked, sibling_indices)
             IN  [out |-> updated.out,
                  val |-> IF Returns(updated) THEN updated.val ELSE linked,
                  insert_pos |-> insert_pos.val,
                  inserted |-> TRUE]

\* TreeProgressManager::add_progress_bar by thread t, up to drop(state). A
\* call that does not get to drop(state) keeps the mutex: it loops with the
\* lock held, or it has panicked and poisoned the lock.
add_progress_bar(t, parent_id) ==
    /\ pc[t] = "idle"
    /\ mutex = None
    /\ \E ts \in {state} :
         \E done \in {add_progress_bar_locked(ts, parent_id)} :
           /\ state' = done.val
           /\ multi_progress' = IF done.inserted
                                THEN mp_insert(multi_progress, done.insert_pos, Len(ts.items))
                                ELSE multi_progress
           /\ IF done.out = "return"
              THEN /\ pc' = [pc EXCEPT ![t] = "update_prefixes"]
                   /\ UNCHANGED mutex
              ELSE /\ pc' = [pc EXCEPT ![t] = done.out]
                   /\ mutex' = Some(t)
    /\ UNCHANGED messages

\* the for loop of update_prefixes over the ids of the items that have a parent
RECURSIVE update_loop(_, _)
update_loop(ts, items_to_update) ==
    IF items_to_update = <<>>
    THEN Ret(ts)
    ELSE LET prefix == TreeState_compute_prefix(ts, items_to_update[1])
         IN  IF Returns(prefix)
             THEN update_loop([ts EXCEPT !.tree_prefixes = MapInsert(@, items_to_update[1], prefix.val)],
                              Tail(items_to_update))
             ELSE prefix

\* the ids of the items that have a parent, in items order
RECURSIVE with_parent(_)
with_parent(items) ==
    IF items = <<>>
    THEN <<>>
    ELSE IF IsSome(items[1].parent)
         THEN <<items[1].id>> \o with_parent(Tail(items))
         ELSE with_parent(Tail(items))

\* TreeProgressManager::update_prefixes by thread t, the first step of
\* update_all_prefixes_and_messages
update_prefixes(t) ==
    /\ pc[t] = "update_prefixes"
    /\ mutex = None
    /\ \E ts \in {state} :
         \E done \in {update_loop(ts, with_parent(ts.items))} :
           IF Returns(done)
           THEN /\ state' = done.val
                /\ pc' = [pc EXCEPT ![t] = "update_messages"]
                /\ UNCHANGED mutex
           ELSE /\ pc' = [pc EXCEPT ![t] = done.out]
                /\ mutex' = Some(t)
                /\ UNCHANGED state
    /\ UNCHANGED <<multi_progress, messages>>

\* the message set on a bar: the prefix stored for id in front of the base
\* message, the base message alone when no prefix is stored or it is empty
full_message(ts, id, base_msg) ==
    LET prefix == IF id \in DOMAIN ts.tree_prefixes THEN ts.tree_prefixes[id] ELSE <<>>
    IN  IF prefix = <<>> THEN base_msg ELSE prefix \o base_msg

\* update_all_prefixes_and_messages that leaves the messages as they are
update_messages_none(t) ==
    /\ pc[t] = "update_messages"
    /\ mutex = None
    /\ pc' = [pc EXCEPT ![t] = "idle"]
    /\ UNCHANGED <<state, mutex, multi_progress, messages>>

\* update_all_prefixes_and_messages by thread t after update_prefixes: the
\* message of every item that has a stored base message is set again
update_messages(t) ==
    /\ pc[t] = "update_messages"
    /\ mutex = None
    /\ messages' =
           [id \in (DOMAIN messages) \cup
                   {state.items[i].id : i \in {j \in 1..Len(state.items) :
                                                   state.items[j].id \in DOMAIN state.base_messages}} |->
               IF id \in DOMAIN state.base_messages /\ \E i \in 1..Len(state.items) : state.items[i].id = id
               THEN full_message(state, id, state.base_messages[id])
               ELSE messages[id]]
    /\ pc' = [pc EXCEPT ![t] = "idle"]
    /\ UNCHANGED <<state, mutex, multi_progress>>

\* TreeProgressManager::set_message by thread t
set_message(t, id, base_message) ==
    /\ pc[t] = "idle"
    /\ mutex = None
    /\ state' = [state EXCEPT !.base_messages = MapInsert(@, id, base_message)]
    /\ messages' = IF \E i \in 1..Len(state.items) : state.items[i].id = id
                   THEN MapInsert(messages, id, full_message(state, id, base_message))
                   ELSE messages
    /\ UNCHANGED <<mutex, multi_progress, pc>>

\* TreeProgressManager::get_prefix
Manager_get_prefix(id) == MapGet(state.tree_prefixes, id)

\* at most MaxBars bars
AddProgressBar ==
    /\ Len(state.items) < MaxBars
    /\ \E t \in Threads, parent_id \in {None} \cup {Some(p) : p \in 0..MaxBars} : add_progress_bar(t, parent_id)
    /\ UNCHANGED <<it_vars, rows>>

UpdatePrefixes == \E t \in Threads : update_prefixes(t) /\ UNCHANGED <<it_vars, rows>>

UpdateMessages == \E t \in Threads : update_messages(t) /\ UNCHANGED <<it_vars, rows>>

\* set_message for a bar that exists or for the id of the next one, once per id
SetMessage ==
    /\ \E t \in Threads, id \in 0..Len(state.items), base_message \in BaseMessages :
           /\ id \notin DOMAIN state.base_messages
           /\ set_message(t, id, base_message)
    /\ UNCHANGED <<it_vars, rows>>

NextPM ==
    (AddProgressBar \/ UpdatePrefixes \/ UpdateMessages \/ SetMessage) /\ UNCHANGED <<q_vars, draw_vars>>

\* the threads of a TreeProgressManager as the only callers
SpecPM == Init /\ [][NextPM]_vars

\* ------------------------------------------------------------------ build/incremental.rs, the queries as calls

\* one call of a query: what was called, with what, and how the call ended
Call(op, arg, val) == Some([op |-> op, arg |-> arg, val |-> val])

\* the ids and parent ids the queries are called with: the ids assigned so
\* far and ids that are not assigned
QueryIds == 0..MaxQueried

\* an add call of the caller that also queries; the results it holds are of
\* the tree before the add
AddQueried ==
    /\ next_id < MaxQueried
    /\ (AddNode \/ AddLeaf \/ AddLeafLines)
    /\ result' = None
    /\ UNCHANGED <<level, draw_vars>>

\* a query takes &self: the call changes no field
Query(op, arg, val) ==
    /\ result' = Call(op, arg, val)
    /\ UNCHANGED <<it_vars, rows, pm_vars, level, draw_vars>>

\* build_tree that moves the items out of the model instead of cloning them
BuildTreeTakes ==
    /\ result' = Call("build_tree", None, build_tree)
    /\ trees' = EmptyMap
    /\ UNCHANGED <<parent_to_children, child_to_parent, next_id, root_ids, style, returned>>
    /\ UNCHANGED <<rows, pm_vars, level, draw_vars>>

GetPrefix == \E id \in QueryIds : Query("get_prefix", id, get_prefix(id))

CalculateInsertPosition ==
    \E parent_id \in {None} \cup {Some(p) : p \in QueryIds} :
        Query("calculate_insert_position", parent_id, calculate_insert_position(parent_id))

CalculateInsertPositionForExisting ==
    \E id \in QueryIds :
        Query("calculate_insert_position_for_existing", id,
              calculate_insert_position_for_existing(id))

BuildTree == Query("build_tree", None, build_tree)

GetTree == \E id \in QueryIds : Query("get_tree", id, Ret(get_tree(id)))

CallLen == Query("len", None, Ret(len))

CallIsEmpty == Query("is_empty", None, Ret(is_empty))

NextQueries ==
    \/ AddQueried
    \/ GetPrefix
    \/ CalculateInsertPosition
    \/ CalculateInsertPositionForExisting
    \/ BuildTree
    \/ GetTree
    \/ CallLen
    \/ CallIsEmpty

\* a caller that adds items and queries the tree in any order
SpecQueries == Init /\ [][NextQueries]_vars

\* ------------------------------------------------------------------ utils.rs, the prefix functions as calls

ComputePrefix ==
    /\ result' = Call("compute_prefix", level, Ret(compute_prefix(level, style)))
    /\ UNCHANGED <<it_vars, rows, pm_vars, level, draw_vars>>

ComputeSecondLinePrefix ==
    /\ result' = Call("compute_second_line_prefix", level, Ret(compute_second_line_prefix(level, style)))
    /\ UNCHANGED <<it_vars, rows, pm_vars, level, draw_vars>>

NextPrefix == ComputePrefix \/ ComputeSecondLinePrefix

\* the prefix functions applied to every LevelPath under both styles
SpecPrefix == InitPrefix /\ [][NextPrefix]_vars

\* ------------------------------------------------------------------ renderer.rs

\* the concatenation of a sequence of sequences
RECURSIVE Concat(_)
Concat(ss) == IF ss = <<>> THEN <<>> ELSE ss[1] \o Concat(Tail(ss))

\* one line the renderer writes: the prefix, the text behind it, whether the
\* line is the first of its element and whether it ends with the line ending
Line(prefix, text, head, newline) ==
    [prefix |-> prefix, text |-> text, head |-> head, newline |-> newline]

\* the for loop of write_tree_element over the elements of level from pos on:
\* what it writes to f and what it pushes to second_line
RECURSIVE element_prefix_loop(_, _, _, _, _)
element_prefix_loop(lv, st, pos, written, second_line) ==
    IF pos >= Len(lv)
    THEN [written |-> written, second_line |-> second_line]
    ELSE LET is_last == lv[pos + 1]
             last_row == pos = Len(lv) - 1
         IN  IF is_last
             THEN element_prefix_loop(lv, st, pos + 1,
                      written \o (IF ~last_row THEN get_empty(st) ELSE get_branch(st, TRUE)),
                      second_line \o get_empty(st))
             ELSE element_prefix_loop(lv, st, pos + 1,
                      written \o (IF ~last_row THEN get_vertical(st) ELSE get_branch(st, FALSE)),
                      second_line \o get_vertical(st))

\* write_tree_element with the default formatters, no colors and the style st:
\* the lines it writes, top to bottom
RECURSIVE write_tree_element(_, _, _)
write_tree_element(tree, lv, st) ==
    LET prefixes == element_prefix_loop(lv, st, 0, <<>>, <<>>)
    IN  IF tree.kind = "Node"
        THEN <<Line(prefixes.written, tree.label, TRUE, TRUE)>> \o
             Concat([i \in 1..Len(tree.children) |->
                        write_tree_element(tree.children[i],
                                           Append(lv, i = Len(tree.children)), st)])
        ELSE IF tree.lines = <<>>
             THEN <<Line(prefixes.written, "", TRUE, FALSE)>>
             ELSE [i \in 1..Len(tree.lines) |->
                      IF i = 1
                      THEN Line(prefixes.written, tree.lines[i], TRUE, TRUE)
                      ELSE Line(prefixes.second_line \o <<" ">>, tree.lines[i], FALSE, TRUE)]

\* write_tree_with_config: the element at the top is written at the empty
\* LevelPath
write_tree_with_config(tree, st) == write_tree_element(tree, <<>>, st)

\* ------------------------------------------------------------------ the tree the claims speak of

\* document order of the subtree of id: id, then the subtrees of its
\* children in list order; cut below depth levels
RECURSIVE Subtree(_, _)
Subtree(id, depth) ==
    IF depth = 0
    THEN <<id>>
    ELSE <<id>> \o Concat([i \in 1..Len(Children(id)) |-> Subtree(Children(id)[i], depth - 1)])

\* the depth-first document-order flattening of the whole tree
DocOrder == Concat([i \in 1..Len(root_ids) |-> Subtree(root_ids[i], Cardinality(DOMAIN trees))])

\* how often x occurs in a sequence
Occurrences(s, x) == Cardinality({i \in 1..Len(s) : s[i] = x})

\* the 0-based index of the first x in a sequence that holds it
IndexOf(s, x) == (CHOOSE i \in 1..Len(s) : s[i] = x /\ \A j \in 1..(i - 1) : s[j] # x) - 1

\* following child_to_parent from id reaches a root within steps steps
RECURSIVE ReachesRoot(_, _)
ReachesRoot(id, steps) ==
    IF id \notin DOMAIN child_to_parent
    THEN FALSE
    ELSE IF child_to_parent[id] = None
         THEN TRUE
         ELSE IF steps = 0
              THEN FALSE
              ELSE ReachesRoot(Unwrap(child_to_parent[id]), steps - 1)

\* ------------------------------------------------------------------ claims

\* C1: after any sequence of add calls with arbitrary parent_id arguments the
\* parent relation is acyclic: from every id the parent chain reaches an item
\* with parent None in finitely many steps, and no id is in its own children
\* list.
C1_Acyclic ==
    \A id \in DOMAIN child_to_parent :
        /\ ReachesRoot(id, Cardinality(DOMAIN trees))
        /\ id \notin Range(Children(id))

\* the add call with this parent_id argument makes the step
Called(parent_id) ==
    \/ \E label \in Labels : add_node(label, parent_id)
    \/ add_leaf("x", parent_id)
    \/ \E lines \in LeafLines : add_leaf_lines(lines, parent_id)

\* what C2 says the step of an add call with this parent_id does
C2_Effect(parent_id) ==
    IF \/ parent_id = None
       \/ Unwrap(parent_id) \notin DOMAIN trees
       \/ trees[Unwrap(parent_id)].kind = "Leaf"
    THEN /\ root_ids' = Append(root_ids, next_id)
         /\ next_id \in DOMAIN child_to_parent'
         /\ child_to_parent'[next_id] = None
         /\ parent_to_children' = parent_to_children
    ELSE /\ Unwrap(parent_id) \in DOMAIN parent_to_children'
         /\ parent_to_children'[Unwrap(parent_id)] = Append(Children(Unwrap(parent_id)), next_id)
         /\ next_id \in DOMAIN child_to_parent'
         /\ child_to_parent'[next_id] = Some(Unwrap(parent_id))

\* C2: an add call whose parent_id is None, names an id that does not exist
\* at the time of the call, or names a Leaf makes the new item a root (appended
\* to root_ids, child_to_parent None, no children list changed); one whose
\* parent_id names an existing Node p appends the new id to p's children and
\* records Some(p).
C2_AddPlacement == [][\A parent_id \in ParentArgs : Called(parent_id) => C2_Effect(parent_id)]_vars

\* C3: the two relationship maps agree: every id in parent_to_children[p] has
\* child_to_parent Some(p); every id whose entry is Some(p) occurs exactly once
\* in parent_to_children[p], in no other children list and not in root_ids;
\* every id whose entry is None occurs exactly once in root_ids.
C3_MapsAgree ==
    /\ \A p \in DOMAIN parent_to_children :
           \A i \in 1..Len(parent_to_children[p]) :
               MapGet(child_to_parent, parent_to_children[p][i]) = Some(Some(p))
    /\ \A id \in DOMAIN child_to_parent :
           IF IsSome(child_to_parent[id])
           THEN /\ Occurrences(Children(Unwrap(child_to_parent[id])), id) = 1
                /\ \A q \in DOMAIN parent_to_children :
                       q # Unwrap(child_to_parent[id]) => Occurrences(parent_to_children[q], id) = 0
                /\ Occurrences(root_ids, id) = 0
           ELSE Occurrences(root_ids, id) = 1

\* C3, its case: two roots, and a parent with two children
C3_Witness ==
    /\ Len(root_ids) >= 2
    /\ \E p \in DOMAIN parent_to_children : Len(parent_to_children[p]) >= 2

\* C4: every operation of the incremental model terminates for every argument
\* in every reachable state: add_node/add_leaf, get_prefix(id),
\* calculate_insert_position(parent_id),
\* calculate_insert_position_for_existing(id) and build_tree on
\* IncrementalTree, and add_progress_bar(parent_id, ...) on
\* TreeProgressManager each return or fail after finitely many steps; none
\* loops forever.
C4_Terminates ==
    /\ \A id \in Ids :
           /\ get_prefix(id).out # "loops"
           /\ calculate_insert_position_for_existing(id).out # "loops"
           /\ calculate_insert_position(Some(id)).out # "loops"
    /\ calculate_insert_position(None).out # "loops"
    /\ build_tree.out # "loops"
    /\ \A t \in Threads : pc[t] # "loops"

\* C5: the k-th add call, counting from 0 over the three add operations,
\* returns k; no id is returned twice; len() is the number of add calls made.
C5_IdsInCallOrder ==
    /\ \A k \in 1..Len(returned) : returned[k] = k - 1
    /\ \A j, k \in 1..Len(returned) : j # k => returned[j] # returned[k]
    /\ len = Len(returned)

\* C5, its case: three add calls, a node, a leaf and a many-line leaf
C5_Witness ==
    /\ Len(returned) >= 3
    /\ \E i, j, k \in DOMAIN trees :
           /\ trees[i].kind = "Node"
           /\ trees[j].kind = "Leaf" /\ Len(trees[j].lines) = 1
           /\ trees[k].kind = "Leaf" /\ Len(trees[k].lines) = 2

\* the last glyph of a prefix: every glyph of a style has three characters
LastSegment(prefix) == SubSeq(prefix, Len(prefix) - 2, Len(prefix))

\* the items that have a parent
NonRoots == {id \in DOMAIN trees : id \in DOMAIN child_to_parent /\ IsSome(child_to_parent[id])}

\* id is the last element of its parent's children list
IsLastOfParent(id) == Last(Children(Unwrap(child_to_parent[id]))) = Some(id)

\* C6: for every item id that exists, calculate_insert_position_for_existing(id)
\* returns the 0-based index of id in the depth-first document-order
\* flattening of the current tree.
C6_ExistingPosition ==
    \A id \in DOMAIN trees :
        /\ Occurrences(DocOrder, id) = 1
        /\ calculate_insert_position_for_existing(id) = Ret(IndexOf(DocOrder, id))

\* the index a new child of p would occupy in the flattening: the end of the
\* subtree of p, which is the end of the subtree of p's last child, or the
\* place right after p when p has no children
ChildSlot(p) == IndexOf(DocOrder, p) + Len(Subtree(p, Cardinality(DOMAIN trees)))

\* C7: for every existing Node p (here: every one the flattening holds),
\* calculate_insert_position(Some(p)) is the index a new child of p would
\* occupy in the depth-first flattening of the whole tree, whatever p's own
\* position is.
C7_ProspectiveChildPosition ==
    \A p \in DOMAIN trees :
        (trees[p].kind = "Node" /\ Occurrences(DocOrder, p) = 1)
            => calculate_insert_position(Some(p)) = Ret(ChildSlot(p))

\* C8: calculate_insert_position(None) is the index at which a newly added
\* root would sit in the depth-first flattening of the whole tree: the very
\* end, after every existing root and all of their descendants.
C8_ProspectiveRootPosition == calculate_insert_position(None) = Ret(Len(DocOrder))

\* C9: the consumer that inserts each new row at
\* calculate_insert_position_for_existing(new id) keeps its list equal to the
\* depth-first flattening of the tree after every step (the main bar, which is
\* no tree item, stays below the rows).
C9_RowsInDocOrder == rows = DocOrder \o <<MainBar>>

\* C9, its case: a sibling was inserted below the whole subtree of the
\* sibling before it, and a later row was inserted above rows that were
\* already there
C9_Witness ==
    /\ \E p \in DOMAIN parent_to_children :
           /\ Len(parent_to_children[p]) >= 2
           /\ Children(parent_to_children[p][1]) # <<>>
    /\ \E i \in 1..Len(rows) : \E j \in (i + 1)..Len(rows) : rows[j] # MainBar /\ rows[i] > rows[j]

\* C10: for every non-root item the final segment of get_prefix(id) is the
\* style's last-child glyph if and only if id is currently the last element
\* of its parent's children list, and the branch glyph otherwise.
C10_FinalSegment ==
    \A id \in NonRoots :
        LET got == get_prefix(id)
        IN  /\ Returns(got)
            /\ IsSome(got.val)
            /\ LastSegment(Unwrap(got.val)) = (IF IsLastOfParent(id) THEN style.last ELSE style.branch)

\* C11: get_prefix(id) returns None when id is a root item and when id does
\* not exist, and Some of a non-empty string for every existing item that has
\* a parent.
C11_PrefixOrNone ==
    \A id \in 0..(MaxItems + 1) :
        IF id \in NonRoots
        THEN /\ Returns(get_prefix(id))
             /\ IsSome(get_prefix(id).val)
             /\ Unwrap(get_prefix(id).val) # <<>>
        ELSE get_prefix(id) = Ret(None)

\* C11 where no item is its own ancestor
C11_PrefixOrNoneAcyclic == C1_Acyclic => C11_PrefixOrNone

\* the number of ancestors of id, following child_to_parent for at most steps
\* steps
RECURSIVE Depth(_, _)
Depth(id, steps) ==
    IF steps = 0 \/ id \notin DOMAIN child_to_parent \/ child_to_parent[id] = None
    THEN 0
    ELSE 1 + Depth(Unwrap(child_to_parent[id]), steps - 1)

\* the item at depth d on the chain from the root down to id
RECURSIVE ChainAt(_, _)
ChainAt(id, d) ==
    IF Depth(id, Cardinality(DOMAIN trees)) <= d
    THEN id
    ELSE ChainAt(Unwrap(child_to_parent[id]), d)

\* C12: for every existing non-root item the LevelPath that get_prefix builds
\* has as many elements as the item has ancestors, is ordered from the root
\* side to the item, and its element i (counting from 0) is true exactly when
\* the item at depth i+1 on the ancestor chain is the last child of its
\* parent; so an item has one more segment than its parent.
C12_LevelPath ==
    \A id \in NonRoots :
        LET got == get_prefix_level_path(id)
            n == Cardinality(DOMAIN trees)
        IN  /\ Returns(got)
            /\ Len(got.val) = Depth(id, n)
            /\ \A i \in 1..Len(got.val) : got.val[i] = IsLastOfParent(ChainAt(id, i))
            /\ LET up == get_prefix_level_path(Unwrap(child_to_parent[id]))
               IN  Returns(up) /\ Len(got.val) = Len(up.val) + 1

\* C12 where no item is its own ancestor
C12_LevelPathAcyclic == C1_Acyclic => C12_LevelPath

\* the glyph the rule of the last position gives an element
EdgeGlyph(st, is_last) == IF is_last THEN st.last ELSE st.branch

\* the glyph the rule of the ancestor levels gives an element
AncestorGlyph(st, is_last) == IF is_last THEN st.empty ELSE st.vertical

\* the last call was op and returned
Returned(op) == IsSome(result) /\ Unwrap(result).op = op /\ Returns(Unwrap(result).val)

\* what the last call returned
Value == Unwrap(result).val.val

\* C13: for every LevelPath of length n and every style, compute_prefix
\* returns the concatenation, in path order, of one glyph per element: at the
\* last position the last-child glyph if the element is true, else the branch
\* glyph; at every earlier position the empty glyph if the element is true,
\* else the vertical glyph; the empty path yields the empty string.
C13_ComputePrefix ==
    Returned("compute_prefix") =>
        /\ Value = Concat([i \in 1..Len(level) |->
                              IF i = Len(level)
                              THEN EdgeGlyph(style, level[i])
                              ELSE AncestorGlyph(style, level[i])])
        /\ level = <<>> => Value = <<>>

\* C13, its case: compute_prefix has returned for a path of three elements or
\* more that has a true and a false element before the last position
C13_Witness ==
    /\ Returned("compute_prefix")
    /\ Len(level) >= 3
    /\ \E i, j \in 1..(Len(level) - 1) : level[i] /\ ~level[j]

\* C14: for every LevelPath and style, compute_second_line_prefix emits for
\* every element, the last included, the empty glyph if the element is true
\* and the vertical glyph otherwise; it has as many segments as compute_prefix
\* has for the same path and agrees with it on every segment but the last.
C14_SecondLinePrefix ==
    Returned("compute_second_line_prefix") =>
        LET first == compute_prefix(level, style)
        IN  /\ Value = Concat([i \in 1..Len(level) |-> AncestorGlyph(style, level[i])])
            /\ Len(Value) = Len(first)
            /\ Len(Value) = 3 * Len(level)
            /\ \A k \in 1..(Len(Value) - 3) : Value[k] = first[k]

\* C14, its case: compute_second_line_prefix has returned for a path of two
\* elements or more whose last element differs from its first
C14_Witness ==
    /\ Returned("compute_second_line_prefix")
    /\ Len(level) >= 2
    /\ level[Len(level)] # level[1]

\* the segments of a prefix: every glyph of a style has three characters
Segments(prefix) == [k \in 1..(Len(prefix) \div 3) |-> SubSeq(prefix, 3 * k - 2, 3 * k)]

\* the kind of glyph a segment is in a style
KindOf(st, glyph) ==
    CASE glyph = st.branch -> "branch"
      [] glyph = st.last -> "last"
      [] glyph = st.vertical -> "vertical"
      [] glyph = st.empty -> "empty"
      [] OTHER -> "none"

\* the kinds of the segments of a prefix, in order
Kinds(st, prefix) == [k \in 1..Len(Segments(prefix)) |-> KindOf(st, Segments(prefix)[k])]

\* C15: two IncrementalTree instances built by the same add calls, one with
\* the Unicode and one with the ASCII style (the add calls never read the
\* style, so the two have the same fields but for the style), give for every
\* id the same outcome of get_prefix: None in one exactly when None in the
\* other, and otherwise prefixes of the same number of segments and the same
\* kind of segment at every position, each a whole number of glyphs of its
\* style.
C15_StylesAgree ==
    \A id \in 0..(MaxItems + 1) :
        LET u == get_prefix_styled(unicode, id)
            a == get_prefix_styled(ascii, id)
        IN  /\ u.out = a.out
            /\ Returns(u) =>
                   /\ IsSome(u.val) <=> IsSome(a.val)
                   /\ IsSome(u.val) =>
                          /\ Len(Unwrap(u.val)) = Len(Unwrap(a.val))
                          /\ Len(Unwrap(u.val)) % 3 = 0
                          /\ Kinds(unicode, Unwrap(u.val)) = Kinds(ascii, Unwrap(a.val))
                          /\ "none" \notin Range(Kinds(unicode, Unwrap(u.val)))

\* C15, its case: an item two levels down whose prefix has two segments, an
\* empty one and a branch one, and differs between the styles
C15_Witness ==
    \E id \in NonRoots :
        /\ Returns(get_prefix_styled(unicode, id))
        /\ Kinds(unicode, Unwrap(get_prefix_styled(unicode, id).val)) = <<"empty", "branch">>
        /\ get_prefix_styled(unicode, id) # get_prefix_styled(ascii, id)
        /\ get_prefix(id) \in {get_prefix_styled(unicode, id), get_prefix_styled(ascii, id)}

C17_BuildTreeNoneIffEmpty ==
    /\ len >= 1 => root_ids # <<>>
    /\ build_tree = Ret(None) <=> is_empty
    /\ returned # <<>> => (Returns(build_tree) /\ IsSome(build_tree.val))

\* C17 where no item is its own ancestor
C17_BuildTreeNoneIffEmptyAcyclic == C1_Acyclic => C17_BuildTreeNoneIffEmpty

\* the static tree of the subtree of id: a Leaf with the lines of the item, or
\* a Node with the label of the item and the static trees of its children in
\* list order; cut below depth levels
RECURSIVE TreeOf(_, _)
TreeOf(id, depth) ==
    IF trees[id].kind = "Leaf" \/ depth = 0
    THEN trees[id]
    ELSE Node(trees[id].label, [i \in 1..Len(Children(id)) |-> TreeOf(Children(id)[i], depth - 1)])

\* C18: build_tree() on a tree with exactly one root returns that root's own
\* subtree with no wrapper; with k >= 2 roots it returns a single synthetic
\* Node with an empty label whose children are exactly the k root subtrees,
\* in the order the roots were added.
C18_Wrapper ==
    LET n == Cardinality(DOMAIN trees)
    IN  /\ Len(root_ids) = 1 => build_tree = Ret(Some(TreeOf(root_ids[1], n)))
        /\ Len(root_ids) >= 2 =>
               /\ build_tree = Ret(Some(Node("", [i \in 1..Len(root_ids) |-> TreeOf(root_ids[i], n)])))
               /\ \A i, j \in 1..Len(root_ids) : i < j => root_ids[i] < root_ids[j]

\* C18, its case: three roots, one of them a Node with a child
C18_Witness ==
    /\ Len(root_ids) = 3
    /\ \E i \in 1..3 : Children(root_ids[i]) # <<>>
    /\ Returns(build_tree)

\* the sum of a sequence of numbers
RECURSIVE Sum(_)
Sum(ns) == IF ns = <<>> THEN 0 ELSE ns[1] + Sum(Tail(ns))

\* the number of Node and Leaf elements of a static tree
RECURSIVE CountElements(_)
CountElements(tree) ==
    1 + Sum([i \in 1..Len(tree.children) |-> CountElements(tree.children[i])])

\* the static tree the items of the model describe: the subtree of the only
\* root, or the subtrees of the roots under a synthetic node
WholeTree ==
    IF Len(root_ids) = 1
    THEN TreeOf(root_ids[1], Cardinality(DOMAIN trees))
    ELSE Node("", [i \in 1..Len(root_ids) |-> TreeOf(root_ids[i], Cardinality(DOMAIN trees))])

\* C19: after any sequence of add calls the tree build_tree() returns holds
\* every added item exactly once (its Node and Leaf elements, a synthetic
\* wrapper not counted, are len() many), the children of each Node in the
\* order they were added under it, each Node with its label and each Leaf
\* with its lines.
C19_EveryItemOnce ==
    returned # <<>> =>
        /\ Returns(build_tree)
        /\ IsSome(build_tree.val)
        /\ CountElements(Unwrap(build_tree.val)) = len + (IF Len(root_ids) = 1 THEN 0 ELSE 1)
        /\ Unwrap(build_tree.val) = WholeTree
        /\ \A p \in DOMAIN parent_to_children :
               \A i, j \in 1..Len(parent_to_children[p]) :
                   i < j => parent_to_children[p][i] < parent_to_children[p][j]

\* C19 where no item is its own ancestor
C19_EveryItemOnceAcyclic == C1_Acyclic => C19_EveryItemOnce

\* the prefixes the renderer writes in front of the elements of the tree
\* build_tree() returns, one per element in the order it writes them
RenderedPrefixes ==
    LET written == write_tree_with_config(Unwrap(build_tree.val), style)
        heads == SelectSeq(written, LAMBDA l : l.head)
    IN  [k \in 1..Len(heads) |-> heads[k].prefix]

\* the place of item id among the elements the renderer writes: the elements
\* are written in document order, after the synthetic node when there is one
RenderedAt(id) == IndexOf(DocOrder, id) + 1 + (IF Len(root_ids) = 1 THEN 0 ELSE 1)

\* C20: for every existing non-root item, get_prefix(id) is the prefix string
\* the static renderer (write_tree_element) writes in front of that same item
\* when it renders the tree returned by build_tree().
C20_PrefixAsRendered ==
    \A id \in NonRoots :
        /\ Returns(build_tree)
        /\ IsSome(build_tree.val)
        /\ Occurrences(DocOrder, id) = 1
        /\ get_prefix(id) = Ret(Some(RenderedPrefixes[RenderedAt(id)]))

\* C20 where no item is its own ancestor
C20_PrefixAsRenderedAcyclic == C1_Acyclic => C20_PrefixAsRendered

\* C20 where no item is its own ancestor and the tree has one root
C20_PrefixAsRenderedOneRoot == (C1_Acyclic /\ Len(root_ids) = 1) => C20_PrefixAsRendered

\* C21: every TreeProgressManager operation executes under the state mutex
\* in full before releasing it: while a call of one thread is between its
\* first and its last access to the shared TreeState, no step of another
\* thread takes the lock and changes what the manager holds, so the
\* operations are serialized as wholes.
C21_WholeOperationsSerialized ==
    [][\A t \in Threads :
           (pc[t] # "idle" /\ pc'[t] = pc[t])
               => UNCHANGED <<state, multi_progress, messages>>]_vars

\* no call of any thread is in progress
Quiet == \A t \in Threads : pc[t] = "idle"

\* the bars of the manager
Bars == {state.items[i].id : i \in 1..Len(state.items)}

\* the parent a bar was added with
ParentOf(id) == ItemAt(state, state.index_to_position[id]).parent

\* C22: whenever no operation is in progress, the message shown on every bar
\* that has a stored base message is the bar's current tree prefix (the one
\* get_prefix returns, which is the one computed from the tree as it is)
\* followed by the base message, and the base message alone for a root bar.
C22_MessagesUpToDate ==
    Quiet =>
        \A id \in Bars \cap DOMAIN state.base_messages :
            /\ id \in DOMAIN messages
            /\ messages[id] =
                   (IF IsSome(Manager_get_prefix(id)) THEN Unwrap(Manager_get_prefix(id)) ELSE <<>>)
                       \o state.base_messages[id]
            /\ IsSome(ParentOf(id)) =>
                   TreeState_compute_prefix(state, id) = Ret(Unwrap(Manager_get_prefix(id)))
            /\ ~IsSome(ParentOf(id)) => messages[id] = state.base_messages[id]

\* C22, its case: a bar under an earlier bar shows a message whose prefix
\* ends in the branch glyph, the prefix it has since a sibling was added
\* after it
C22_Witness ==
    /\ Quiet
    /\ \E id \in Bars \cap DOMAIN messages :
           /\ IsSome(ParentOf(id))
           /\ Unwrap(ParentOf(id)) < id
           /\ LastSegment(Unwrap(Manager_get_prefix(id))) = state.style.branch
           /\ messages[id] = Unwrap(Manager_get_prefix(id)) \o state.base_messages[id]

\* C23: calculate_insert_position_for_existing(id) panics exactly when id
\* does not exist in the tree: for every id an add call has returned it
\* returns a position, and for every id never returned it panics.
C23_PanicsIffMissing ==
    \A id \in 0..(MaxItems + 1) :
        IF id \in Range(returned)
        THEN Returns(calculate_insert_position_for_existing(id))
        ELSE calculate_insert_position_for_existing(id) = Panic

\* C23 where no item is its own ancestor
C23_PanicsIffMissingAcyclic == C1_Acyclic => C23_PanicsIffMissing

\* the bars that were added with a parent_id naming no bar that existed then:
\* ids are given in the order of the adds, so the parent_id is the id of the
\* bar itself or of a later one
Orphans == {id \in Bars : IsSome(ParentOf(id)) /\ Unwrap(ParentOf(id)) >= id}

\* C24: a bar added with a parent_id that does not name an existing bar is
\* silently treated as a root: it is last in the display order when it is
\* added, get_prefix returns None for it, and it stays a root (no prefix, the
\* child of no bar) also when a bar with that id is created later.
C24_OrphanIsRoot ==
    \A id \in Orphans :
        /\ Manager_get_prefix(id) = None
        /\ \A p \in DOMAIN state.parent_to_children : id \notin Range(state.parent_to_children[p])

\* C24 for the bars whose parent_id names a later bar, in the states where
\* every call returns
C24_LaterParentIsRoot ==
    (\A t \in Threads : pc[t] \notin {"loops", "panic"}) =>
        \A id \in {o \in Orphans : Unwrap(ParentOf(o)) > o} :
            /\ Manager_get_prefix(id) = None
            /\ \A p \in DOMAIN state.parent_to_children : id \notin Range(state.parent_to_children[p])

\* C24 for the display order alone: a bar whose parent_id names itself or a
\* later bar is below every bar added before it
C24_OrphanAddedLast ==
    \A id \in Orphans :
        \A other \in Bars :
            other < id => state.index_to_position[other] < state.index_to_position[id]

\* ------------------------------------------------------------------ iterator.rs

\* the most items an IncrementalTree holds when a TreeLines iterator is made
\* over the tree it builds
MaxLined == 3

\* LevelPath::with_child
with_child(lv, is_last) == Append(lv, is_last)

\* RenderConfig::format_node with no formatter set
format_node(label) == label

\* RenderConfig::format_leaf with no formatter set
format_leaf(line) == line

\* struct Line of iterator.rs
iterator_Line(prefix, content, depth, is_last) ==
    [prefix |-> prefix, content |-> content, depth |-> depth, is_last |-> is_last]

\* struct LeafState
LeafState(lines, index, prefix, second_line_prefix, lv) ==
    [lines |-> lines, index |-> index, prefix |-> prefix,
     second_line_prefix |-> second_line_prefix, level |-> lv]

\* one entry of TreeLines.stack: (child_index, parent_tree, level_info)
StackEntry(child_idx, parent, lv) == [child_idx |-> child_idx, parent |-> parent, level |-> lv]

\* TreeLines::build_prefix
build_prefix(lv, st) == compute_prefix(lv, st)

\* TreeLines::build_second_line_prefix
build_second_line_prefix(lv, st) == compute_second_line_prefix(lv, st)

\* TreeLines::with_config; the config is its style
TreeLines_with_config(tree, st) ==
    [tree |-> tree,
     config |-> st,
     stack |-> IF tree.kind = "Node" /\ tree.children # <<>>
               THEN <<StackEntry(0, tree, <<>>)>>
               ELSE <<>>,
     leaf_state |-> None,
     root_yielded |-> FALSE]

\* what one call of next leaves behind: the iterator and the Option<Line>
Yield(it, item) == [it |-> it, item |-> item]

\* the push of the remaining siblings
push_siblings(stack, child_idx, parent, lv) ==
    IF child_idx + 1 < Len(parent.children)
    THEN Append(stack, StackEntry(child_idx + 1, parent, lv))
    ELSE stack

RECURSIVE TreeLines_next(_)
RECURSIVE stack_loop(_)

\* the while let loop of next over the stack
stack_loop(it) ==
    IF it.stack = <<>>
    THEN Yield(it, None)
    ELSE LET top == it.stack[Len(it.stack)]
             popped == [it EXCEPT !.stack = Front(it.stack)]
             child_idx == top.child_idx
             parent == top.parent
             children == parent.children
         IN  IF child_idx >= Len(children)
             THEN stack_loop(popped)
             ELSE LET child == children[child_idx + 1]
                      is_last == child_idx = Len(children) - 1
                      new_level == with_child(top.level, is_last)
                      prefix == build_prefix(top.level, it.config)
                      depth == Len(top.level)
                      siblings == push_siblings(popped.stack, child_idx, parent, top.level)
                  IN  IF child.kind = "Node"
                      THEN Yield([popped EXCEPT !.stack =
                                     IF child.children # <<>>
                                     THEN Append(siblings, StackEntry(0, child, new_level))
                                     ELSE siblings],
                                 Some(iterator_Line(prefix, format_node(child.label), depth, is_last)))
                      ELSE IF child.lines = <<>>
                           THEN stack_loop(popped)
                           ELSE IF Len(child.lines) = 1
                                THEN Yield([popped EXCEPT !.stack = siblings],
                                           Some(iterator_Line(prefix, format_leaf(child.lines[1]),
                                                              depth, is_last)))
                                ELSE TreeLines_next(
                                         [popped EXCEPT
                                             !.leaf_state =
                                                 Some(LeafState(child.lines, 0, prefix,
                                                          build_second_line_prefix(top.level, it.config),
                                                          top.level)),
                                             !.stack = siblings])

\* TreeLines::next
TreeLines_next(it) ==
    IF ~it.root_yielded
    THEN LET yielded == [it EXCEPT !.root_yielded = TRUE]
         IN  IF it.tree.kind = "Node"
             THEN Yield(yielded, Some(iterator_Line(<<>>, format_node(it.tree.label), 0, TRUE)))
             ELSE IF it.tree.lines = <<>>
                  THEN Yield(yielded, None)
                  ELSE IF Len(it.tree.lines) = 1
                       THEN Yield(yielded,
                                  Some(iterator_Line(<<>>, format_leaf(it.tree.lines[1]), 0, TRUE)))
                       ELSE TreeLines_next(
                                [yielded EXCEPT
                                    !.leaf_state =
                                        Some(LeafState(it.tree.lines, 0, <<>>,
                                                 build_second_line_prefix(<<>>, it.config), <<>>))])
    ELSE IF IsSome(it.leaf_state) /\ Unwrap(it.leaf_state).index < Len(Unwrap(it.leaf_state).lines)
         THEN LET leaf_state == Unwrap(it.leaf_state)
                  index == leaf_state.index + 1
              IN  Yield([it EXCEPT !.leaf_state =
                            IF index >= Len(leaf_state.lines)
                            THEN None
                            ELSE Some([leaf_state EXCEPT !.index = index])],
                        Some(iterator_Line(IF leaf_state.index = 0
                                           THEN leaf_state.prefix
                                           ELSE leaf_state.second_line_prefix,
                                           format_leaf(leaf_state.lines[leaf_state.index + 1]),
                                           Len(leaf_state.level), FALSE)))
         ELSE stack_loop([it EXCEPT !.leaf_state = None])

\* the tree is built while no iterator borrows it
AddLined ==
    /\ tree_lines = None
    /\ Len(returned) < MaxLined
    /\ \/ AddNode
       \/ AddLeaf
       \/ AddLeafLines
       \/ /\ MoreItems
          /\ \E parent_id \in ParentArgs : add_leaf_lines(<<>>, parent_id)
          /\ UNCHANGED <<rows, pm_vars>>
    /\ UNCHANGED <<q_vars, draw_vars>>

\* TreeLines::with_config over the tree build_tree() returned
TreeLinesNew ==
    /\ tree_lines = None
    /\ Returns(build_tree)
    /\ IsSome(build_tree.val)
    /\ tree_lines' = Some([iter |-> TreeLines_with_config(Unwrap(build_tree.val), style),
                           lines |-> <<>>,
                           done |-> FALSE])
    /\ UNCHANGED <<it_vars, rows, pm_vars, q_vars, CURRENT_BAR_ID>>

\* one call of next, until it returns None
TreeLinesNext ==
    /\ IsSome(tree_lines)
    /\ ~Unwrap(tree_lines).done
    /\ \E r \in {TreeLines_next(Unwrap(tree_lines).iter)} :
           tree_lines' = Some([iter |-> r.it,
                               lines |-> IF IsSome(r.item)
                                         THEN Append(Unwrap(tree_lines).lines, Unwrap(r.item))
                                         ELSE Unwrap(tree_lines).lines,
                               done |-> r.item = None])
    /\ UNCHANGED <<it_vars, rows, pm_vars, q_vars, CURRENT_BAR_ID>>

NextLines == AddLined \/ TreeLinesNew \/ TreeLinesNext

\* building a tree, then iterating over its lines
SpecLines == Init /\ [][NextLines]_vars

\* ------------------------------------------------------------------ C25

\* the lines of a static tree, one per node label and per leaf line in
\* depth-first order, each with the prefix compute_prefix gives for the level
\* path lv of its item, the depth of the item and whether it is the first
\* line of the item
RECURSIVE LinesOf(_, _, _)
LinesOf(tree, lv, st) ==
    IF tree.kind = "Node"
    THEN <<[prefix |-> compute_prefix(lv, st), content |-> tree.label,
            depth |-> Len(lv), head |-> TRUE]>> \o
         Concat([i \in 1..Len(tree.children) |->
                    LinesOf(tree.children[i], Append(lv, i = Len(tree.children)), st)])
    ELSE [i \in 1..Len(tree.lines) |->
             [prefix |-> compute_prefix(lv, st), content |-> tree.lines[i],
              depth |-> Len(lv), head |-> i = 1]]

\* the iterator has returned None
Exhausted == IsSome(tree_lines) /\ Unwrap(tree_lines).done

\* C25: TreeLines yields one Line per node label and per leaf line in
\* depth-first order; the prefix of the first line of every item is
\* compute_prefix of the level path of that item, which is what the renderer
\* writes in front of it, and Line.depth is the depth of the item, 0 for the
\* root and 1 for its direct children.
C25_LinesAsRendered ==
    Exhausted =>
        LET it == Unwrap(tree_lines).iter
            lines == Unwrap(tree_lines).lines
            expected == LinesOf(it.tree, <<>>, it.config)
        IN  /\ Len(lines) = Len(expected)
            /\ \A i \in 1..Len(lines) :
                   /\ lines[i].content = expected[i].content
                   /\ lines[i].depth = expected[i].depth
                   /\ expected[i].head => lines[i].prefix = expected[i].prefix

\* the prefixes of LinesOf are the ones the renderer writes in front of the
\* first line of every element that has a line
C25_ExpectedIsRendered ==
    Exhausted =>
        LET it == Unwrap(tree_lines).iter
            expected == SelectSeq(LinesOf(it.tree, <<>>, it.config), LAMBDA l : l.head)
            written == SelectSeq(write_tree_with_config(it.tree, it.config),
                                 LAMBDA l : l.head /\ l.newline)
        IN  /\ Len(expected) = Len(written)
            /\ \A i \in 1..Len(expected) :
                   expected[i].prefix = written[i].prefix /\ expected[i].content = written[i].text

\* C25 for the lines at depth 0 alone: a tree that is one Node without
\* children or one Leaf
C25_RootAlone ==
    (Exhausted /\ Unwrap(tree_lines).iter.tree.children = <<>>) => C25_LinesAsRendered

\* C25 but for prefix and depth: the count and the contents of the lines
C25_Contents ==
    Exhausted =>
        LET it == Unwrap(tree_lines).iter
            lines == Unwrap(tree_lines).lines
            expected == LinesOf(it.tree, <<>>, it.config)
        IN  /\ Len(lines) = Len(expected)
            /\ \A i \in 1..Len(lines) : lines[i].content = expected[i].content

\* C25_Contents for the trees without an empty Leaf
RECURSIVE HasEmptyLeaf(_)
HasEmptyLeaf(tree) ==
    \/ tree.kind = "Leaf" /\ tree.lines = <<>>
    \/ \E i \in 1..Len(tree.children) : HasEmptyLeaf(tree.children[i])

C25_ContentsNoEmptyLeaf ==
    (Exhausted /\ ~HasEmptyLeaf(Unwrap(tree_lines).iter.tree)) => C25_Contents

\* ------------------------------------------------------------------ indicatif.rs, one caller

AddProgressBarAlone ==
    /\ Len(state.items) < MaxAlone
    /\ \E parent_id \in {None} \cup {Some(p) : p \in 0..MaxAlone} : add_progress_bar(1, parent_id)
    /\ UNCHANGED <<it_vars, rows>>

UpdatePrefixesAlone == update_prefixes(1) /\ UNCHANGED <<it_vars, rows>>

UpdateMessagesAlone == update_messages(1) /\ UNCHANGED <<it_vars, rows>>

\* set_message for a bar that exists, once per id
SetMessageAlone ==
    /\ \E id \in 0..(Len(state.items) - 1), base_message \in BaseMessages :
           /\ id \notin DOMAIN state.base_messages
           /\ set_message(1, id, base_message)
    /\ UNCHANGED <<it_vars, rows>>

NextAlone ==
    (AddProgressBarAlone \/ UpdatePrefixesAlone \/ UpdateMessagesAlone \/ SetMessageAlone)
        /\ UNCHANGED <<q_vars, draw_vars>>

\* one thread as the only caller of a TreeProgressManager: every call runs to
\* its end before the next one starts
SpecAlone == Init /\ [][NextAlone]_vars

\* ------------------------------------------------------------------ C26

\* the ids of the children list of parent that have a position, in list order
Positioned(parent) ==
    SelectSeq(state.parent_to_children[parent], LAMBDA id : id \in DOMAIN state.index_to_position)

\* C26: in every reachable TreeState, for every parent the ids of
\* parent_to_children[parent] that have a position are at strictly increasing
\* positions of items in list order, so the child at the greatest position is
\* the last element of the children list.
C26_ChildrenInPositionOrder ==
    \A parent \in DOMAIN state.parent_to_children :
        LET children == Positioned(parent)
        IN  /\ \A i, j \in 1..Len(children) :
                   i < j => state.index_to_position[children[i]] < state.index_to_position[children[j]]
            /\ \A i \in 1..Len(children) :
                   (\A j \in 1..Len(children) :
                        state.index_to_position[children[j]] <= state.index_to_position[children[i]])
                       => /\ i = Len(children)
                          /\ children[i] = state.parent_to_children[parent][Len(state.parent_to_children[parent])]

\* C26, its case: a parent with two children where the first has a child of
\* its own that was added after the second
C26_Witness ==
    \E parent \in DOMAIN state.parent_to_children :
        LET children == state.parent_to_children[parent]
        IN  /\ parent \in Bars
            /\ Len(children) >= 2
            /\ parent < children[1]
            /\ children[1] \in DOMAIN state.parent_to_children
            /\ \E grandchild \in Range(state.parent_to_children[children[1]]) :
                   /\ grandchild > children[2]
                   /\ grandchild \in DOMAIN state.index_to_position
            /\ Positioned(parent) = children

\* ------------------------------------------------------------------ C27

\* an add call made right after get_prefix was called for every existing item:
\* result holds what those calls returned, by id
AddAfterGetPrefix ==
    /\ AddNode \/ AddLeaf \/ AddLeafLines
    /\ result' = Call("get_prefix", None, [id \in DOMAIN trees |-> get_prefix(id)])
    /\ UNCHANGED <<level, draw_vars>>

\* add calls, the prefixes of the existing items read before each
SpecAdds == Init /\ [][AddAfterGetPrefix]_vars

\* the newest item and the parent the last add call linked it to
Newest == next_id - 1

\* the items whose prefix the last add call may have changed: the child of
\* the parent of the newest item that was last before the call, which is now
\* the last but one, and its descendants
Affected ==
    LET linked == child_to_parent[Newest]
        siblings == Children(Unwrap(linked))
    IN  IF IsSome(linked) /\ Unwrap(linked) # Newest /\ Len(siblings) >= 2
        THEN Range(Subtree(siblings[Len(siblings) - 1], Cardinality(DOMAIN trees)))
        ELSE {}

\* C27: an add under an existing Node p changes get_prefix of no existing
\* item but the child of p that was last before the add and the descendants
\* of that child; an add that makes a root changes the prefix of no existing
\* item.
C27_OnlyLastChildSubtree ==
    IsSome(result) =>
        LET before == Unwrap(result).val
        IN  \A id \in DOMAIN before : get_prefix(id) = before[id] \/ id \in Affected

\* C27, its case: the last add call gave an item that has a prefix of its own
\* a second child, so the prefix of its first child has changed from what it
\* was before the call and its own has not
C27_Witness ==
    /\ IsSome(result)
    /\ IsSome(child_to_parent[Newest])
    /\ \E parent \in {Unwrap(child_to_parent[Newest])} :
           /\ Len(Children(parent)) = 2
           /\ parent < Children(parent)[1]
           /\ Returns(get_prefix(parent)) /\ IsSome(get_prefix(parent).val)
           /\ Unwrap(result).val[parent] = get_prefix(parent)
           /\ Returns(get_prefix(Children(parent)[1]))
           /\ LastSegment(Unwrap(get_prefix(Children(parent)[1]).val)) = style.branch
           /\ Unwrap(result).val[Children(parent)[1]] # get_prefix(Children(parent)[1])

\* ------------------------------------------------------------------ indicatif.rs, WrappedProgressBar

\* the most bars the TreeProgressManager holds whose bars are wrapped
MaxWrapped == 2

\* the closure get_tree_key_handler returns, run on a thread whose
\* CURRENT_BAR_ID holds cell: the id it reads and what it writes for {tree}
get_tree_key_handler(cell, ts) ==
    [id |-> cell,
     written |-> IF IsSome(cell) /\ Unwrap(cell) \in DOMAIN ts.tree_prefixes
                 THEN ts.tree_prefixes[Unwrap(cell)]
                 ELSE <<>>]

\* self.progress_bar.method(..) of the bar wrapped with id, on thread t: the
\* bar is drawn on the calling thread, and its template calls the handler,
\* which locks state, with the thread-local as the method has left it
forward(t, id, method, cell) ==
    /\ pc[t] = "idle"
    /\ mutex = None
    /\ result' = Call(method, id, get_tree_key_handler(cell, state))

\* CURRENT_BAR_ID.set(Some(self.id)); self.progress_bar.method(..)
set_and_forward(t, id, method) ==
    /\ CURRENT_BAR_ID' = [CURRENT_BAR_ID EXCEPT ![t] = Some(id)]
    /\ forward(t, id, method, Some(id))
    /\ UNCHANGED <<it_vars, rows, pm_vars, level, tree_lines>>

\* self.progress_bar.method(..) alone
forward_only(t, id, method) ==
    /\ forward(t, id, method, CURRENT_BAR_ID[t])
    /\ UNCHANGED <<it_vars, rows, pm_vars, level, draw_vars>>

\* the bars wrap_progress_bar was called for: every bar of the manager
Wrapped == {state.items[i].id : i \in 1..Len(state.items)}

\* WrappedProgressBar::inc
WrappedInc == \E t \in Threads, id \in Wrapped : set_and_forward(t, id, "inc")

\* WrappedProgressBar::set_position
WrappedSetPosition == \E t \in Threads, id \in Wrapped : set_and_forward(t, id, "set_position")

\* WrappedProgressBar::finish
WrappedFinish == \E t \in Threads, id \in Wrapped : forward_only(t, id, "finish")

\* WrappedProgressBar::finish_with_message
WrappedFinishWithMessage ==
    \E t \in Threads, id \in Wrapped : forward_only(t, id, "finish_with_message")

\* WrappedProgressBar::set_message
WrappedSetMessage == \E t \in Threads, id \in Wrapped : set_and_forward(t, id, "set_message")

\* WrappedProgressBar::set_prefix
WrappedSetPrefix == \E t \in Threads, id \in Wrapped : set_and_forward(t, id, "set_prefix")

\* WrappedProgressBar::set_style
WrappedSetStyle == \E t \in Threads, id \in Wrapped : set_and_forward(t, id, "set_style")

\* WrappedProgressBar::tick
WrappedTick == \E t \in Threads, id \in Wrapped : set_and_forward(t, id, "tick")

\* add_progress_bar by the thread that builds the manager
AddProgressBarWrapped ==
    /\ Len(state.items) < MaxWrapped
    /\ \E parent_id \in {None} \cup {Some(p) : p \in 0..MaxWrapped} : add_progress_bar(1, parent_id)
    /\ result' = None
    /\ UNCHANGED <<it_vars, rows, level, draw_vars>>

NextWrapped ==
    \/ AddProgressBarWrapped
    \/ (UpdatePrefixesAlone \/ UpdateMessagesAlone) /\ result' = None /\ UNCHANGED <<level, draw_vars>>
    \/ WrappedInc
    \/ WrappedSetPosition
    \/ WrappedFinish
    \/ WrappedFinishWithMessage
    \/ WrappedSetMessage
    \/ WrappedSetPrefix
    \/ WrappedSetStyle
    \/ WrappedTick

\* one thread builds the manager, two threads call the wrapped bars
SpecWrapped == Init /\ [][NextWrapped]_vars

\* ------------------------------------------------------------------ C28

\* the methods of WrappedProgressBar that forward to a drawing method
Forwarded ==
    {"inc", "set_position", "set_message", "set_prefix", "set_style", "tick",
     "finish", "finish_with_message"}

\* the last call was a method of a wrapped bar
Drawn == IsSome(result) /\ Unwrap(result).op \in Forwarded

\* C28: a WrappedProgressBar sets CURRENT_BAR_ID to its own id before every
\* drawing method it forwards (inc, set_position, set_message, set_prefix,
\* set_style, tick, finish, finish_with_message), so the tree key handler
\* that runs for the draw reads the id of the bar being drawn and writes the
\* prefix of that bar.
C28_HandlerSeesOwnId ==
    Drawn =>
        /\ Unwrap(result).val.id = Some(Unwrap(result).arg)
        /\ Unwrap(result).val.written =
               (IF Unwrap(result).arg \in DOMAIN state.tree_prefixes
                THEN state.tree_prefixes[Unwrap(result).arg]
                ELSE <<>>)

\* C28 for the six methods that do set the thread-local
C28_SettersSeeOwnId ==
    (Drawn /\ Unwrap(result).op \notin {"finish", "finish_with_message"}) => C28_HandlerSeesOwnId

\* finish or finish_with_message of a bar without a prefix has written the
\* prefix of another bar
C28_WrongPrefixWritten ==
    /\ Drawn
    /\ Unwrap(result).op \in {"finish", "finish_with_message"}
    /\ Unwrap(result).arg \notin DOMAIN state.tree_prefixes
    /\ Unwrap(result).val.written # <<>>

\* ------------------------------------------------------------------ C29

\* the parent every bar was added with names no bar or an earlier one
WellFormed ==
    \A i \in 1..Len(state.items) :
        IsSome(state.items[i].parent) => Unwrap(state.items[i].parent) < state.items[i].id

\* the ids in a set in ascending order, which is the order they were added in
RECURSIVE Ascending(_)
Ascending(ids) ==
    IF ids = {}
    THEN <<>>
    ELSE LET least == CHOOSE x \in ids : \A y \in ids : x <= y
         IN  <<least>> \o Ascending(ids \ {least})

\* the bars added with this parent_id, in the order they were added
AddedUnder(parent_id) ==
    Ascending({id \in Bars : ParentOf(id) = parent_id})

\* the depth-first flattening of the subtree of a bar: the bar, then the
\* subtrees of the bars added under it, in add order; cut below depth levels
RECURSIVE BarSubtree(_, _)
BarSubtree(id, depth) ==
    IF depth = 0
    THEN <<id>>
    ELSE <<id>> \o Concat([i \in 1..Len(AddedUnder(Some(id))) |->
                              BarSubtree(AddedUnder(Some(id))[i], depth - 1)])

\* the depth-first flattening of the bar tree
BarOrder ==
    Concat([i \in 1..Len(AddedUnder(None)) |-> BarSubtree(AddedUnder(None)[i], Len(state.items))])

\* C29: after add_progress_bar calls whose parent_id is None or an id an
\* earlier call returned, the ids of TreeState.items are the depth-first
\* flattening of the bar tree (roots and children in add order),
\* index_to_position maps the id at index i of items to i, and every bar was
\* inserted into the MultiProgress at its index in that flattening, so the
\* MultiProgress shows the bars in the same order.
C29_ItemsAreFlattening ==
    WellFormed =>
        /\ [i \in 1..Len(state.items) |-> state.items[i].id] = BarOrder
        /\ DOMAIN state.index_to_position = Bars
        /\ \A i \in 1..Len(state.items) : state.index_to_position[state.items[i].id] = i - 1
        /\ multi_progress = BarOrder

\* C29, its case: four bars, the last one added under the first child of a
\* bar that has two children, so it was inserted in front of the second
C29_Witness ==
    /\ WellFormed
    /\ Quiet
    /\ Len(state.items) = 4
    /\ BarOrder = <<0, 1, 3, 2>>
    /\ multi_progress = <<0, 1, 3, 2>>

\* ------------------------------------------------------------------ C30

\* C30: with add_progress_bar called concurrently, whenever the mutex of
\* state is free tree_prefixes holds for every bar that has a parent the
\* prefix TreeState::compute_prefix computes for it from the state as it is,
\* and holds no entry for a bar without a parent.
C30_PrefixesFresh ==
    mutex = None =>
        \A id \in Bars :
            IF IsSome(ParentOf(id))
            THEN /\ id \in DOMAIN state.tree_prefixes
                 /\ TreeState_compute_prefix(state, id) = Ret(state.tree_prefixes[id])
            ELSE id \notin DOMAIN state.tree_prefixes

\* C30, its case: both threads are inside add_progress_bar between two of
\* its lock sections, the mutex is free, and the prefix of a bar has been
\* changed by the add of a later sibling
C30_Witness ==
    /\ mutex = None
    /\ \A t \in Threads : pc[t] \in {"update_prefixes", "update_messages"}
    /\ \E id \in Bars :
           /\ IsSome(ParentOf(id))
           /\ Unwrap(ParentOf(id)) < id
           /\ LastSegment(state.tree_prefixes[id]) = state.style.branch

====
